---- MODULE Spec2Model ----
(***************************************************************************)
(* A model of the Cup Game: the Flask web API (web_app.py), the terminal   *)
(* game CupGame (cup_game_enhanced.py) and the session store               *)
(* DatabaseManager they both write to.                                     *)
(*                                                                         *)
(* Strings that the program normalises (the player's raw choice, the cup   *)
(* names it is compared with) are sequences of one-character strings, so   *)
(* that str.lower() and str.strip() are computed, not assumed.  Time is    *)
(* the value of time.time() in whole seconds.  Optional values (None or a  *)
(* value) are the empty set or a singleton.                                *)
(***************************************************************************)
EXTENDS Integers, Sequences, FiniteSets, TLC

VARIABLES
    now,        \* the value time.time() returns
    session,    \* web: the Flask session of the one caller
    saved,      \* the rows INSERTed into game_sessions by the last request
                \* (web) or by this process (terminal); the rows of earlier
                \* requests, which no handler modelled here reads, are not kept
    request,    \* web: the last request handled (operation and arguments)
    response,   \* web: the JSON body and status of the last response
    game,       \* terminal: the fields of the CupGame object
    term,       \* terminal: where the process is, and play_round's locals
    inflight    \* web: the requests being handled at the same time

vars == <<now, session, saved, request, response, game, term, inflight>>
webvars == <<session, request, response>>
termvars == <<game, term>>

----------------------------------------------------------------------------
(* Bounds of the model *)

\* the clock advances in steps of ClockUnit seconds, up to MaxNow
ClockUnit == 15
MaxNow == 45
\* rounds resolved in a session that has no round cap of its own
MaxOpenRounds == 2
\* a draw of the prize takes one of the first MaxPrizeDraw prizes
MaxPrizeDraw == 2
\* lines the player may type at one "Choose a cup" prompt sequence
MaxPrompts == 3

\* records saved into a store that is exercised on its own
MaxRecords == 3
\* rounds resolved in a session whose play_round requests may overlap
MaxRaceRounds == 2
\* records in the terminal's store when the last session of a history starts
MaxHistory == 1

----------------------------------------------------------------------------
(* Strings *)

Upper == <<"A","B","C","D","E","F","G","H","I","J","K","L","M",
           "N","O","P","Q","R","S","T","U","V","W","X","Y","Z">>
LowerLetters == <<"a","b","c","d","e","f","g","h","i","j","k","l","m",
                  "n","o","p","q","r","s","t","u","v","w","x","y","z">>

\* str.lower() on one character
LowerChar(c) ==
    IF \E i \in DOMAIN Upper : Upper[i] = c
    THEN LowerLetters[CHOOSE i \in DOMAIN Upper : Upper[i] = c]
    ELSE c

\* str.lower()
Lower(s) == [i \in 1..Len(s) |-> LowerChar(s[i])]

\* the characters str.strip() removes
Whitespace == {" ", "\t", "\n"}

RECURSIVE LStrip(_)
LStrip(s) ==
    IF s # <<>> /\ Head(s) \in Whitespace THEN LStrip(Tail(s)) ELSE s

RECURSIVE RStrip(_)
RStrip(s) ==
    IF s # <<>> /\ s[Len(s)] \in Whitespace
    THEN RStrip(SubSeq(s, 1, Len(s) - 1))
    ELSE s

\* str.strip()
Strip(s) == RStrip(LStrip(s))

\* membership of a value in a Python list
InList(x, list) == \E i \in 1..Len(list) : list[i] = x

----------------------------------------------------------------------------
(* Program data *)

left == <<"l","e","f","t">>
right == <<"r","i","g","h","t">>
middle == <<"m","i","d","d","l","e">>
middle_left == <<"m","i","d","d","l","e","-","l","e","f","t">>
middle_right == <<"m","i","d","d","l","e","-","r","i","g","h","t">>

Difficulties == {"easy", "medium", "hard"}
GameModes == {"classic", "timed", "streak"}

prizes ==
    <<"a Disney Cruise ticket", "a Ferrari", "a mansion in Beverly Hills",
      "a giraffe", "Jordan Air 1s", "a golden watch", "a private jet",
      "a treasure chest", "a magical sword", "a diamond ring">>

\* the outcomes of random.choice(list) the model draws
Draws(list, bound) ==
    {list[i] : i \in 1..(IF Len(list) < bound THEN Len(list) ELSE bound)}

\* a game_config whose hard entry has the three cups of medium
game_config_HardAsMedium(difficulty) ==
    CASE difficulty = "easy" ->
            [cups |-> <<left, right>>, shuffle_time |-> 20]
      [] difficulty \in {"medium", "hard"} ->
            [cups |-> <<left, middle, right>>, shuffle_time |-> 15]

\* web: game_config[difficulty]; shuffle_time in tenths of a second
game_config(difficulty) ==
    CASE difficulty = "easy" ->
            [cups |-> <<left, right>>, shuffle_time |-> 20]
      [] difficulty = "medium" ->
            [cups |-> <<left, middle, right>>, shuffle_time |-> 15]
      [] difficulty = "hard" ->
            [cups |-> <<left, middle_left, middle_right, right>>,
             shuffle_time |-> 10]

\* dict.get(key, default)
Get(d, key, default) == IF key \in DOMAIN d THEN d[key] ELSE default

\* d with d[key] = value added
With(d, key, value) ==
    [k \in DOMAIN d \cup {key} |-> IF k = key THEN value ELSE d[k]]

\* a start_game that gives streak mode a time limit instead of a round cap
WebConfig_StreakTimed(difficulty, game_mode) ==
    LET config == game_config(difficulty)
    IN  IF game_mode \in {"timed", "streak"}
        THEN With(config, "time_limit", 30)
        ELSE config

\* web: the config start_game derives
WebConfig(difficulty, game_mode) ==
    LET config == game_config(difficulty)
    IN  IF game_mode = "timed" THEN With(config, "time_limit", 30)
        ELSE IF game_mode = "streak" THEN With(config, "max_rounds", 10)
        ELSE config

----------------------------------------------------------------------------
(* The session store: DatabaseManager *)

\* a save that writes over the newest row instead of adding one
save_game_session_Overwrites(rows, difficulty, game_mode, wins, losses, t) ==
    LET row == [difficulty |-> difficulty, game_mode |-> game_mode,
                wins |-> wins, losses |-> losses, duration_seconds |-> t]
    IN  IF rows = <<>> THEN <<row>> ELSE [rows EXCEPT ![Len(rows)] = row]

\* an INSERT that binds wins and losses to each other's column
save_game_session_Swapped(rows, difficulty, game_mode, wins, losses, t) ==
    Append(rows, [difficulty |-> difficulty, game_mode |-> game_mode,
                  wins |-> losses, losses |-> wins,
                  duration_seconds |-> t])

\* save_game_session when its INSERT succeeds: one row more.  (When the
\* INSERT raises sqlite3.Error, save_game_session re-raises it and no row
\* is added: the handlers below take that as ok = FALSE.)
save_game_session(rows, difficulty, game_mode, wins, losses, duration) ==
    Append(rows, [difficulty |-> difficulty, game_mode |-> game_mode,
                  wins |-> wins, losses |-> losses,
                  duration_seconds |-> duration])

----------------------------------------------------------------------------
(* The web API: one caller, requests handled one after the other *)

\* a session cookie that holds no key yet
EmptySession == [k \in {} |-> TRUE]

\* a request of the caller that is not being handled
Idle == [pc |-> "idle", sess |-> EmptySession, saved |-> <<>>,
         response |-> [code |-> 0]]

\* a play_round request of the caller that is not being handled: read is
\* the session its cookie carried, sess the session its response carries
PlayIdle == [pc |-> "idle", read |-> EmptySession, sess |-> EmptySession,
             choice |-> <<>>, saved |-> <<>>, response |-> [code |-> 0]]

\* the two play_round requests a caller may have in flight
PlaySlots == {"play_round_a", "play_round_b"}

\* no request is being handled
NoneInFlight ==
    [r \in {"end_game", "game_status"} \cup PlaySlots |->
        IF r \in PlaySlots THEN PlayIdle ELSE Idle]

\* the test written as: 'game_active' in session
GameActive_KeyPresent(s) == "game_active" \in DOMAIN s

\* session.get('game_active')
GameActive(s) == Get(s, "game_active", FALSE)

\* the raw strings a player may send as the choice
RawChoices ==
    { left,
      <<" ","L","E","F","T"," ">>,
      <<"R","i","g","h","t">>,
      middle,
      <<"M","i","d","d","l","e","-","L","e","f","t","\n">>,
      <<"i","n","v","a","l","i","d">> }

\* request bodies of play_round: with a choice, or without one
PlayBodies == {[choice |-> c] : c \in RawChoices} \cup {EmptySession}

\* request bodies of start_game: each key given (valid or not) or missing
StartBodies ==
    {[difficulty |-> d, game_mode |-> m] : d \in Difficulties,
                                             m \in GameModes}
    \cup {[difficulty |-> "extreme"], [game_mode |-> "zen"],
          EmptySession}

\* start_game that does not reset the score of the caller's earlier game
NewSession_KeepsScore(difficulty, game_mode, config, t) ==
    [game_active |-> TRUE, difficulty |-> difficulty,
     game_mode |-> game_mode, config |-> config,
     wins |-> Get(session, "wins", 0), losses |-> Get(session, "losses", 0),
     start_time |-> t, round_number |-> 1]

\* start_game that numbers the first round 0
NewSession_RoundZero(difficulty, game_mode, config, t) ==
    [game_active |-> TRUE, difficulty |-> difficulty,
     game_mode |-> game_mode, config |-> config,
     wins |-> 0, losses |-> 0, start_time |-> t, round_number |-> 0]

\* start_game, lines 54-62: the session a new game starts with
NewSession(difficulty, game_mode, config, t) ==
    [game_active |-> TRUE, difficulty |-> difficulty,
     game_mode |-> game_mode, config |-> config,
     wins |-> 0, losses |-> 0, start_time |-> t, round_number |-> 1]

\* a start_game that drops the caller's session when it rejects the body
StartGame_ClearsOnError(data) ==
    LET difficulty == Get(data, "difficulty", "easy")
        game_mode == Get(data, "game_mode", "classic")
    IN  /\ term.pc = "off"
        /\ \A r \in DOMAIN inflight : inflight[r].pc \in {"idle", "done"}
        /\ request' = [op |-> "start_game", data |-> data]
        /\ IF difficulty \notin {"easy", "medium", "hard"}
           THEN /\ response' = [code |-> 400, error |-> "Invalid difficulty"]
                /\ session' = EmptySession
           ELSE IF game_mode \notin {"classic", "timed", "streak"}
           THEN /\ response' = [code |-> 400, error |-> "Invalid game mode"]
                /\ session' = EmptySession
           ELSE /\ session' = NewSession(difficulty, game_mode,
                                         WebConfig(difficulty, game_mode), now)
                /\ response' = [code |-> 200, success |-> TRUE,
                                config |-> WebConfig(difficulty, game_mode)]
        /\ saved' = <<>>
        /\ inflight' = NoneInFlight
        /\ UNCHANGED <<now, termvars>>

StartGame(data) ==
    LET difficulty == Get(data, "difficulty", "easy")
        game_mode == Get(data, "game_mode", "classic")
    IN  /\ term.pc = "off"
        /\ \A r \in DOMAIN inflight : inflight[r].pc \in {"idle", "done"}
        /\ request' = [op |-> "start_game", data |-> data]
        /\ IF difficulty \notin {"easy", "medium", "hard"}
           THEN /\ response' = [code |-> 400, error |-> "Invalid difficulty"]
                /\ UNCHANGED session
           ELSE IF game_mode \notin {"classic", "timed", "streak"}
           THEN /\ response' = [code |-> 400, error |-> "Invalid game mode"]
                /\ UNCHANGED session
           ELSE /\ session' = NewSession(difficulty, game_mode,
                                         WebConfig(difficulty, game_mode), now)
                /\ response' = [code |-> 200, success |-> TRUE,
                                config |-> WebConfig(difficulty, game_mode)]
        /\ saved' = <<>>
        /\ inflight' = NoneInFlight
        /\ UNCHANGED <<now, termvars>>

\* play_round, line 85
NormalizeChoice(data) == Strip(Lower(Get(data, "choice", <<>>)))

\* play_round without the membership test
ValidChoice_Any(user_choice, config) == TRUE

\* play_round, line 90
ValidChoice(user_choice, config) == InList(user_choice, config.cups)

\* play_round, lines 94-96
TimeLimitExceeded(s, t) ==
    /\ s.game_mode = "timed"
    /\ t - s.start_time >= Get(s.config, "time_limit", 30)

\* play_round that counts a lost round as a win too
Score_LossAlsoWins(s, won_round) ==
    IF won_round THEN [s EXCEPT !.wins = @ + 1]
    ELSE [s EXCEPT !.losses = @ + 1, !.wins = @ + 1]

\* play_round, lines 117-120
Score(s, won_round) ==
    IF won_round THEN [s EXCEPT !.wins = @ + 1]
    ELSE [s EXCEPT !.losses = @ + 1]

\* play_round that ends on a loss in timed mode instead of streak mode
StreakBroken_WrongMode(s, won_round) == ~won_round /\ s.game_mode = "timed"

\* play_round with the round cap ahead of the streak rule: a loss that
\* brings the session to the cap is left to the cap
StreakBroken_NotAtCap(s, won_round) ==
    /\ ~won_round
    /\ s.game_mode = "streak"
    /\ \/ "max_rounds" \notin DOMAIN s.config
       \/ s.wins + s.losses < s.config.max_rounds

\* play_round that lets a streak survive its first lost round
StreakBroken_SecondLoss(s, won_round) ==
    ~won_round /\ s.game_mode = "streak" /\ s.losses >= 2

\* play_round, line 123
StreakBroken(s, won_round) == ~won_round /\ s.game_mode = "streak"

\* play_round with > for >= in the round cap
MaxRoundsReached_OffByOne(s) ==
    /\ Get(s.config, "max_rounds", 0) # 0
    /\ s.wins + s.losses > s.config.max_rounds

\* play_round that stops one round short of the cap
MaxRoundsReached_OneShort(s) ==
    /\ Get(s.config, "max_rounds", 0) # 0
    /\ s.wins + s.losses >= s.config.max_rounds - 1

\* play_round, lines 146-148
MaxRoundsReached(s) ==
    /\ Get(s.config, "max_rounds", 0) # 0
    /\ s.wins + s.losses >= s.config.max_rounds

\* max(0, time_limit - elapsed) for a timed session, else None
TimeRemaining(s, t) ==
    IF s.game_mode = "timed"
    THEN LET rest == Get(s.config, "time_limit", 30) - (t - s.start_time)
         IN  {IF rest > 0 THEN rest ELSE 0}
    ELSE {}

FinalScore(s) == [wins |-> s.wins, losses |-> s.losses]

\* play_round, lines 104-185: the round is resolved against the draw
ResolveRound(user_choice, prize_cup, prize, ok) ==
    LET won_round == user_choice = prize_cup
        scored == Score(session, won_round)
        ended == [scored EXCEPT !.game_active = FALSE]
        counted == [scored EXCEPT !.round_number = @ + 1]
        capped == [counted EXCEPT !.game_active = FALSE]
        duration == now - session.start_time
    IN  IF StreakBroken(scored, won_round)
        THEN /\ session' = ended
             /\ IF ok
                THEN /\ saved' = save_game_session(<<>>, ended.difficulty,
                                ended.game_mode, ended.wins, ended.losses,
                                duration)
                     /\ response' =
                          [code |-> 200, won_round |-> FALSE,
                           prize_cup |-> prize_cup, prize |-> prize,
                           game_over |-> TRUE, reason |-> "Streak broken",
                           final_score |-> FinalScore(ended),
                           duration |-> duration]
                ELSE /\ saved' = <<>>
                     /\ response' =
                          [code |-> 500, error |-> "Failed to play round"]
        ELSE IF MaxRoundsReached(counted)
        THEN /\ session' = capped
             /\ IF ok
                THEN /\ saved' = save_game_session(<<>>, capped.difficulty,
                                capped.game_mode, capped.wins, capped.losses,
                                duration)
                     /\ response' =
                          [code |-> 200, won_round |-> won_round,
                           prize_cup |-> prize_cup, prize |-> prize,
                           game_over |-> TRUE,
                           reason |-> "Max rounds completed",
                           final_score |-> FinalScore(capped),
                           duration |-> duration]
                ELSE /\ saved' = <<>>
                     /\ response' =
                          [code |-> 500, error |-> "Failed to play round"]
        ELSE /\ session' = counted
             /\ saved' = <<>>
             /\ response' =
                  [code |-> 200, won_round |-> won_round,
                   prize_cup |-> prize_cup, prize |-> prize,
                   current_score |-> FinalScore(counted),
                   round_number |-> counted.round_number,
                   time_remaining |-> TimeRemaining(counted, now),
                   shuffle_time |-> counted.config.shuffle_time,
                   game_over |-> FALSE]

PlayRound(data, ok) ==
    /\ term.pc = "off"
    /\ request' = [op |-> "play_round", data |-> data]
    /\ IF ~GameActive(session)
       THEN /\ response' = [code |-> 400, error |-> "No active game"]
            /\ UNCHANGED session /\ saved' = <<>>
       ELSE LET user_choice == NormalizeChoice(data)
                config == session.config
            IN  IF ~ValidChoice(user_choice, config)
                THEN /\ response' =
                          [code |-> 400, error |-> "Invalid cup choice"]
                     /\ UNCHANGED session /\ saved' = <<>>
                ELSE IF TimeLimitExceeded(session, now)
                THEN /\ session' = [session EXCEPT !.game_active = FALSE]
                     /\ response' =
                          [code |-> 200, game_over |-> TRUE,
                           reason |-> "Time limit exceeded",
                           final_score |-> FinalScore(session)]
                     /\ saved' = <<>>
                ELSE /\ \/ "max_rounds" \in DOMAIN config
                        \/ session.wins + session.losses < MaxOpenRounds
                     /\ \E prize_cup \in Draws(config.cups, Len(config.cups)),
                           prize \in Draws(prizes, MaxPrizeDraw) :
                          ResolveRound(user_choice, prize_cup, prize, ok)
    /\ UNCHANGED <<now, termvars, inflight>>

\* an end_game that hands back a session with the counters at zero
EndGame_ClearsScore(ok) ==
    /\ term.pc = "off"
    /\ request' = [op |-> "end_game"]
    /\ IF ~GameActive(session)
       THEN /\ response' = [code |-> 400, error |-> "No active game"]
            /\ UNCHANGED session /\ saved' = <<>>
       ELSE LET duration == now - session.start_time
            IN  IF ok
                THEN /\ saved' = save_game_session(<<>>, session.difficulty,
                                session.game_mode, session.wins,
                                session.losses, duration)
                     /\ session' = [session EXCEPT !.game_active = FALSE,
                                                   !.wins = 0, !.losses = 0]
                     /\ response' =
                          [code |-> 200, success |-> TRUE,
                           final_score |-> FinalScore(session),
                           duration |-> duration]
                ELSE /\ response' =
                          [code |-> 500, error |-> "Failed to end game"]
                     /\ UNCHANGED session /\ saved' = <<>>
    /\ UNCHANGED <<now, termvars, inflight>>

\* an end_game that clears the active flag before it saves
EndGame_ClearsFirst(ok) ==
    /\ term.pc = "off"
    /\ request' = [op |-> "end_game"]
    /\ IF ~GameActive(session)
       THEN /\ response' = [code |-> 400, error |-> "No active game"]
            /\ UNCHANGED session /\ saved' = <<>>
       ELSE LET duration == now - session.start_time
            IN  /\ session' = [session EXCEPT !.game_active = FALSE]
                /\ IF ok
                   THEN /\ saved' = save_game_session(<<>>,
                                session.difficulty, session.game_mode,
                                session.wins, session.losses, duration)
                        /\ response' =
                             [code |-> 200, success |-> TRUE,
                              final_score |-> FinalScore(session),
                              duration |-> duration]
                   ELSE /\ response' =
                             [code |-> 500, error |-> "Failed to end game"]
                        /\ saved' = <<>>
    /\ UNCHANGED <<now, termvars, inflight>>

EndGame(ok) ==
    /\ term.pc = "off"
    /\ request' = [op |-> "end_game"]
    /\ IF ~GameActive(session)
       THEN /\ response' = [code |-> 400, error |-> "No active game"]
            /\ UNCHANGED session /\ saved' = <<>>
       ELSE LET duration == now - session.start_time
            IN  IF ok
                THEN /\ saved' = save_game_session(<<>>, session.difficulty,
                                session.game_mode, session.wins,
                                session.losses, duration)
                     /\ session' = [session EXCEPT !.game_active = FALSE]
                     /\ response' =
                          [code |-> 200, success |-> TRUE,
                           final_score |-> FinalScore(session),
                           duration |-> duration]
                ELSE /\ response' =
                          [code |-> 500, error |-> "Failed to end game"]
                     /\ UNCHANGED session /\ saved' = <<>>
    /\ UNCHANGED <<now, termvars, inflight>>

\* get_game_status that lets the poll at exactly the time limit pass
StatusTimeExpired_Late(s, t) ==
    /\ s.game_mode = "timed"
    /\ t - s.start_time > Get(s.config, "time_limit", 30)

\* get_statistics (the route): the body is the statistics of the whole
\* table, which is not kept here; DatabaseManager.get_statistics catches
\* sqlite3.Error itself, so the route answers 200 also when the query fails
Statistics ==
    /\ term.pc = "off"
    /\ request' = [op |-> "statistics"]
    /\ response' = [code |-> 200]
    /\ saved' = <<>>
    /\ UNCHANGED <<now, session, termvars, inflight>>

\* get_game_status, lines 247-252
StatusTimeExpired(s, t) ==
    /\ s.game_mode = "timed"
    /\ \A r \in TimeRemaining(s, t) : r <= 0

GameStatus(ok) ==
    /\ term.pc = "off"
    /\ request' = [op |-> "game_status"]
    /\ IF ~GameActive(session)
       THEN /\ response' = [code |-> 200, game_active |-> FALSE]
            /\ UNCHANGED session /\ saved' = <<>>
       ELSE IF StatusTimeExpired(session, now)
       THEN /\ session' = [session EXCEPT !.game_active = FALSE]
            /\ IF ok
               THEN /\ saved' = save_game_session(<<>>, session.difficulty,
                               session.game_mode, session.wins,
                               session.losses, now - session.start_time)
                    /\ response' =
                         [code |-> 200, game_active |-> FALSE,
                          game_over |-> TRUE, reason |-> "Time expired"]
               ELSE /\ saved' = <<>>
                    /\ response' =
                         [code |-> 500, error |-> "Failed to get game status"]
       ELSE /\ response' =
                 [code |-> 200, game_active |-> TRUE,
                  difficulty |-> session.difficulty,
                  game_mode |-> session.game_mode,
                  current_score |-> FinalScore(session),
                  round_number |-> session.round_number,
                  time_remaining |-> TimeRemaining(session, now),
                  config |-> session.config]
            /\ UNCHANGED session /\ saved' = <<>>
    /\ UNCHANGED <<now, termvars, inflight>>

----------------------------------------------------------------------------
(* The web API: an end_game request and a game_status poll of the same     *)
(* caller handled at the same time.  Flask opens the session from the      *)
(* request's cookie when the handler first reads it, the handler works on  *)
(* that copy, and the response carries the copy back to the caller.        *)

\* the handler of request r is done: the caller receives the response and
\* the session cookie it carries
Respond(r, sess, rows, resp) ==
    /\ inflight' = [inflight EXCEPT ![r] = [pc |-> "done", sess |-> sess,
                                            saved |-> rows,
                                            response |-> resp]]
    /\ session' = sess
    /\ saved' = rows
    /\ request' = [op |-> r]
    /\ response' = resp

\* end_game, lines 196-197
EndGameCheck ==
    /\ term.pc = "off"
    /\ inflight["end_game"].pc \in {"idle", "done"}
    /\ IF ~GameActive(session)
       THEN Respond("end_game", session, <<>>,
                    [code |-> 400, error |-> "No active game"])
       ELSE /\ inflight' = [inflight EXCEPT !["end_game"] =
                              [Idle EXCEPT !.pc = "save", !.sess = session]]
            /\ UNCHANGED <<session, saved, request, response>>
    /\ UNCHANGED <<now, termvars>>

\* end_game, lines 199-208
EndGameSave ==
    LET me == inflight["end_game"]
    IN  /\ me.pc = "save"
        /\ inflight' = [inflight EXCEPT !["end_game"] =
              [me EXCEPT !.pc = "clear",
                         !.saved = save_game_session(<<>>,
                             me.sess.difficulty, me.sess.game_mode,
                             me.sess.wins, me.sess.losses,
                             now - me.sess.start_time)]]
        /\ UNCHANGED <<now, session, saved, request, response, termvars>>

\* end_game, lines 210-221
EndGameClear ==
    LET me == inflight["end_game"]
    IN  /\ me.pc = "clear"
        /\ Respond("end_game", [me.sess EXCEPT !.game_active = FALSE],
                   me.saved,
                   [code |-> 200, success |-> TRUE,
                    final_score |-> FinalScore(me.sess),
                    duration |-> me.saved[1].duration_seconds])
        /\ UNCHANGED <<now, termvars>>

\* get_game_status, lines 243-253 and 268-276
StatusCheck ==
    /\ term.pc = "off"
    /\ inflight["game_status"].pc \in {"idle", "done"}
    /\ IF ~GameActive(session)
       THEN Respond("game_status", session, <<>>,
                    [code |-> 200, game_active |-> FALSE])
       ELSE IF StatusTimeExpired(session, now)
       THEN /\ inflight' = [inflight EXCEPT !["game_status"] =
                              [Idle EXCEPT !.pc = "save",
                                 !.sess = [session EXCEPT
                                             !.game_active = FALSE]]]
            /\ UNCHANGED <<session, saved, request, response>>
       ELSE Respond("game_status", session, <<>>,
                    [code |-> 200, game_active |-> TRUE,
                     difficulty |-> session.difficulty,
                     game_mode |-> session.game_mode,
                     current_score |-> FinalScore(session),
                     round_number |-> session.round_number,
                     time_remaining |-> TimeRemaining(session, now),
                     config |-> session.config])
    /\ UNCHANGED <<now, termvars>>

\* get_game_status, lines 254-266
StatusSave ==
    LET me == inflight["game_status"]
    IN  /\ me.pc = "save"
        /\ Respond("game_status", me.sess,
                   save_game_session(<<>>, me.sess.difficulty,
                       me.sess.game_mode, me.sess.wins, me.sess.losses,
                       now - me.sess.start_time),
                   [code |-> 200, game_active |-> FALSE,
                    game_over |-> TRUE, reason |-> "Time expired"])
        /\ UNCHANGED <<now, termvars>>

----------------------------------------------------------------------------
(* The web API: two play_round requests of the same caller handled at the  *)
(* same time.  The session is Flask's signed cookie: each request works on *)
(* the copy its own cookie carried and its response sets the cookie anew.  *)

\* play_round, lines 104-185, on the handler's copy s of the session: the
\* session, the rows inserted and the body the response carries
Outcome(s, user_choice, prize_cup, prize, t) ==
    LET won_round == user_choice = prize_cup
        scored == Score(s, won_round)
        ended == [scored EXCEPT !.game_active = FALSE]
        counted == [scored EXCEPT !.round_number = @ + 1]
        capped == [counted EXCEPT !.game_active = FALSE]
        duration == t - s.start_time
    IN  IF StreakBroken(scored, won_round)
        THEN [sess |-> ended,
              saved |-> save_game_session(<<>>, ended.difficulty,
                            ended.game_mode, ended.wins, ended.losses,
                            duration),
              response |->
                  [code |-> 200, won_round |-> FALSE,
                   prize_cup |-> prize_cup, prize |-> prize,
                   game_over |-> TRUE, reason |-> "Streak broken",
                   final_score |-> FinalScore(ended),
                   duration |-> duration]]
        ELSE IF MaxRoundsReached(counted)
        THEN [sess |-> capped,
              saved |-> save_game_session(<<>>, capped.difficulty,
                            capped.game_mode, capped.wins, capped.losses,
                            duration),
              response |->
                  [code |-> 200, won_round |-> won_round,
                   prize_cup |-> prize_cup, prize |-> prize,
                   game_over |-> TRUE, reason |-> "Max rounds completed",
                   final_score |-> FinalScore(capped),
                   duration |-> duration]]
        ELSE [sess |-> counted,
              saved |-> <<>>,
              response |->
                  [code |-> 200, won_round |-> won_round,
                   prize_cup |-> prize_cup, prize |-> prize,
                   current_score |-> FinalScore(counted),
                   round_number |-> counted.round_number,
                   time_remaining |-> TimeRemaining(counted, t),
                   shuffle_time |-> counted.config.shuffle_time,
                   game_over |-> FALSE]]

\* the handler of play_round request r is done: the caller receives the
\* response and the session cookie it sets
RespondPlay(r, sess, rows, resp) ==
    /\ inflight' = [inflight EXCEPT ![r] =
                        [@ EXCEPT !.pc = "done", !.sess = sess,
                                  !.saved = rows, !.response = resp]]
    /\ session' = sess
    /\ saved' = rows
    /\ request' = [op |-> r]
    /\ response' = resp

\* play_round, lines 81-102: request r arrives with the caller's cookie
PlayRoundOpen(r, data) ==
    LET user_choice == NormalizeChoice(data)
        opened == [PlayIdle EXCEPT !.read = session, !.choice = user_choice]
    IN  /\ term.pc = "off"
        /\ inflight[r].pc \in {"idle", "done"}
        /\ IF ~GameActive(session)
           THEN /\ inflight' = [inflight EXCEPT ![r] =
                      [opened EXCEPT !.pc = "done",
                                     !.response = [code |-> 400,
                                         error |-> "No active game"]]]
                /\ request' = [op |-> r]
                /\ response' = [code |-> 400, error |-> "No active game"]
                /\ saved' = <<>>
                /\ UNCHANGED session
           ELSE IF ~ValidChoice(user_choice, session.config)
           THEN /\ inflight' = [inflight EXCEPT ![r] =
                      [opened EXCEPT !.pc = "done", !.sess = session,
                                     !.response = [code |-> 400,
                                         error |-> "Invalid cup choice"]]]
                /\ request' = [op |-> r]
                /\ response' = [code |-> 400, error |-> "Invalid cup choice"]
                /\ saved' = <<>>
                /\ UNCHANGED session
           ELSE IF TimeLimitExceeded(session, now)
           THEN /\ inflight' = [inflight EXCEPT ![r] =
                      [opened EXCEPT !.pc = "done",
                            !.sess = [session EXCEPT !.game_active = FALSE],
                            !.response =
                                [code |-> 200, game_over |-> TRUE,
                                 reason |-> "Time limit exceeded",
                                 final_score |-> FinalScore(session)]]]
                /\ request' = [op |-> r]
                /\ response' = [code |-> 200, game_over |-> TRUE,
                                reason |-> "Time limit exceeded",
                                final_score |-> FinalScore(session)]
                /\ saved' = <<>>
                /\ session' = [session EXCEPT !.game_active = FALSE]
           ELSE /\ session.wins + session.losses < MaxRaceRounds
                /\ inflight' = [inflight EXCEPT ![r] =
                                   [opened EXCEPT !.pc = "draw"]]
                /\ UNCHANGED <<session, saved, request, response>>
        /\ UNCHANGED <<now, termvars>>

\* play_round, lines 104-185: request r draws, scores and responds
PlayRoundDraw(r) ==
    LET me == inflight[r]
    IN  /\ me.pc = "draw"
        /\ \E prize_cup \in Draws(me.read.config.cups,
                                   Len(me.read.config.cups)),
              prize \in Draws(prizes, MaxPrizeDraw) :
             LET out == Outcome(me.read, me.choice, prize_cup, prize, now)
             IN  RespondPlay(r, out.sess, out.saved, out.response)
        /\ UNCHANGED <<now, termvars>>

----------------------------------------------------------------------------
(* The terminal game: one CupGame object, run() in one process *)

\* None, and a value that is not None
None == {}
Some(x) == {x}
\* Python's truth value of an optional number
Truthy(opt) == opt # None /\ opt # Some(0)

\* CupGame._get_game_config, lines 155-171: the table of the terminal game,
\* built anew by each call; shuffle_time in tenths of a second
configs(difficulty) ==
    CASE difficulty = "easy" ->
            [cups |-> <<left, right>>, shuffle_time |-> 20,
             max_rounds |-> None]
      [] difficulty = "medium" ->
            [cups |-> <<left, middle, right>>, shuffle_time |-> 15,
             max_rounds |-> None]
      [] difficulty = "hard" ->
            [cups |-> <<left, middle_left, middle_right, right>>,
             shuffle_time |-> 10, max_rounds |-> None]

\* a _get_game_config whose table outlives the call: the entry of a
\* difficulty keeps what the construction of the object before added to it
_get_game_config_SharedTable(difficulty, game_mode) ==
    LET config == IF term.entry # None /\ game.difficulty = difficulty
                  THEN game.config
                  ELSE configs(difficulty)
    IN  IF game_mode = "timed" THEN With(config, "time_limit", 30)
        ELSE IF game_mode = "streak"
        THEN [config EXCEPT !.max_rounds = Some(10)]
        ELSE config

\* CupGame._get_game_config
_get_game_config(difficulty, game_mode) ==
    LET config == configs(difficulty)
    IN  IF game_mode = "timed" THEN With(config, "time_limit", 30)
        ELSE IF game_mode = "streak"
        THEN [config EXCEPT !.max_rounds = Some(10)]
        ELSE config

\* CupGame.__init__
CupGame(difficulty, game_mode) ==
    [difficulty |-> difficulty, game_mode |-> game_mode,
     wins |-> 0, losses |-> 0, start_time |-> None,
     config |-> _get_game_config(difficulty, game_mode)]

\* a validate_choice that accepts every string
validate_choice_AcceptsAll(g, choice) == TRUE

\* CupGame.validate_choice
validate_choice(g, choice) == InList(Lower(choice), g.config.cups)

\* CupGame.play_round, lines 225-227
TermTimeUp(g, t) ==
    /\ g.game_mode = "timed"
    /\ \E start \in g.start_time :
          t - start >= Get(g.config, "time_limit", 30)

\* CupGame.play_round, lines 247-252
TermScore(g, user_choice, prize_cup) ==
    IF user_choice = prize_cup THEN [g EXCEPT !.wins = @ + 1]
    ELSE [g EXCEPT !.losses = @ + 1]

\* CupGame.play_round that returns False after a lost round in any mode
TermContinue_StopOnAnyLoss(g, user_choice, prize_cup) ==
    IF user_choice # prize_cup THEN FALSE
    ELSE IF /\ Truthy(Get(g.config, "max_rounds", None))
            /\ \E max_rounds \in g.config.max_rounds :
                  g.wins + g.losses >= max_rounds
    THEN FALSE
    ELSE TRUE

\* CupGame.play_round, lines 247-269: the value play_round returns once the
\* round is scored
TermContinue(g, user_choice, prize_cup) ==
    IF user_choice # prize_cup /\ g.game_mode = "streak" THEN FALSE
    ELSE IF /\ Truthy(Get(g.config, "max_rounds", None))
            /\ \E max_rounds \in g.config.max_rounds :
                  g.wins + g.losses >= max_rounds
    THEN FALSE
    ELSE TRUE

\* a run() that asks "Play another round?" in every mode
AfterRound_AlwaysAsks(g, continue) ==
    IF ~continue THEN "summary" ELSE "again"

\* CupGame.run, lines 349-356: where the loop goes when play_round returns
AfterRound(g, continue) ==
    IF ~continue THEN "summary"
    ELSE IF g.game_mode = "classic" THEN "again"
    ELSE "round"

\* the terminal process when the web API is the front end
NoTerminal ==
    [pc |-> "off", prize_cup |-> None, prize |-> None, prompts |-> 0,
     entry |-> None, result |-> None]

\* CupGame.run, line 338
RunStart ==
    /\ term.pc = "new"
    /\ game' = [game EXCEPT !.start_time = Some(now)]
    /\ term' = [term EXCEPT !.pc = "round"]
    /\ UNCHANGED <<now, saved, webvars, inflight>>

\* CupGame.play_round, lines 224-236: up to the first prompt
TermBeginRound ==
    /\ term.pc = "round"
    /\ IF TermTimeUp(game, now)
       THEN term' = [term EXCEPT !.pc = "summary", !.result = Some(FALSE),
                                 !.prize_cup = None, !.prize = None,
                                 !.prompts = 0, !.entry = None]
       ELSE /\ \/ Truthy(game.config.max_rounds)
               \/ game.wins + game.losses < MaxOpenRounds
            /\ \E prize_cup \in Draws(game.config.cups,
                                       Len(game.config.cups)),
                  prize \in Draws(prizes, MaxPrizeDraw) :
                 term' = [term EXCEPT !.pc = "choose", !.result = None,
                                      !.prize_cup = Some(prize_cup),
                                      !.prize = Some(prize),
                                      !.prompts = 0, !.entry = None]
    /\ UNCHANGED <<now, saved, webvars, game, inflight>>

\* CupGame.play_round, lines 239-269: the line typed at "Choose a cup: "
\* is user_choice once lower-cased and stripped; the draw is a local of
\* play_round and is gone when it returns.  The loop of lines 239-241 takes
\* any number of invalid lines: MaxPrompts caps them, a valid line is taken
\* whenever it comes
TermAnswer(line, user_choice) ==
    LET prize_cup == CHOOSE c \in term.prize_cup : TRUE
        scored == TermScore(game, user_choice, prize_cup)
        continue == TermContinue(scored, user_choice, prize_cup)
    IN  /\ term.pc = "choose"
        /\ validate_choice(game, user_choice) \/ term.prompts < MaxPrompts
        /\ IF ~validate_choice(game, user_choice)
           THEN /\ term' = [term EXCEPT !.prompts = @ + 1,
                                        !.entry = Some(line)]
                /\ game' = game
           ELSE /\ game' = scored
                /\ term' = [term EXCEPT !.prompts = @ + 1,
                                        !.entry = Some(line),
                                        !.result = Some(continue),
                                        !.prize_cup = None, !.prize = None,
                                        !.pc = AfterRound(scored, continue)]
        /\ UNCHANGED <<now, saved, webvars, inflight>>

\* CupGame.play_round, lines 237-269: one line typed at "Choose a cup: "
TermChoose(line) == TermAnswer(line, Strip(Lower(line)))

\* what the player may answer to "Play another round? (y/n): "
Answers == {<<"y">>, <<" ","Y","\n">>, <<"n">>, <<>>}

\* CupGame.run, lines 353-356
TermAgain(line) ==
    /\ term.pc = "again"
    /\ term' = [term EXCEPT
                  !.pc = IF Strip(Lower(line)) # <<"y">> THEN "summary"
                         ELSE "round"]
    /\ UNCHANGED <<now, saved, webvars, game, inflight>>

\* CupGame.show_summary; an sqlite3.Error of the save is caught and logged
show_summary(ok) ==
    LET duration == IF Truthy(game.start_time)
                    THEN {now - start : start \in game.start_time}
                    ELSE None
    IN  /\ term.pc = "summary"
        /\ saved' = IF ok
                    THEN save_game_session(saved, game.difficulty,
                            game.game_mode, game.wins, game.losses, duration)
                    ELSE <<>>
        /\ term' = [term EXCEPT !.pc = "done"]
        /\ UNCHANGED <<now, webvars, game, inflight>>

----------------------------------------------------------------------------
(* The session store: get_statistics, and the store exercised on its own *)

\* SUM(column) over rows that are not empty
RECURSIVE SumOf(_, _)
SumOf(rows, column) ==
    IF rows = <<>> THEN 0
    ELSE Head(rows)[column] + SumOf(Tail(rows), column)

\* SUM(column): NULL over no rows
SqlSum(rows, column) ==
    IF rows = <<>> THEN None ELSE Some(SumOf(rows, column))

\* the duration_seconds that are not NULL
RECURSIVE Durations(_)
Durations(rows) ==
    IF rows = <<>> THEN <<>>
    ELSE (IF Head(rows).duration_seconds = None THEN <<>>
          ELSE <<CHOOSE d \in Head(rows).duration_seconds : TRUE>>)
         \o Durations(Tail(rows))

RECURSIVE SumSeq(_)
SumSeq(numbers) ==
    IF numbers = <<>> THEN 0 ELSE Head(numbers) + SumSeq(Tail(numbers))

\* AVG(duration_seconds): NULL when no row has a duration, else the mean,
\* kept as the fraction <<sum, count>>
SqlAvg(rows) ==
    LET ds == Durations(rows)
    IN  IF ds = <<>> THEN None ELSE Some(<<SumSeq(ds), Len(ds)>>)

\* Python's  x or 0  on a count or a sum of the result row
OrZero(opt) ==
    IF opt = None \/ opt = Some(0) THEN 0 ELSE CHOOSE x \in opt : TRUE

\* Python's  x or 0  on the mean of the result row
MeanOrZero(opt) ==
    IF opt = None \/ (\E mean \in opt : mean[1] = 0) THEN 0
    ELSE CHOOSE mean \in opt : TRUE

\* the rows of one (difficulty, game_mode) group
RowsOf(rows, difficulty, game_mode) ==
    SelectSeq(rows, LAMBDA r : r.difficulty = difficulty
                               /\ r.game_mode = game_mode)

\* get_statistics, lines 86-97: one result row per group; the order of the
\* groups is the database's, so the list is kept as a set
ByCategory(rows) ==
    {[total_sessions |-> Len(RowsOf(rows, r.difficulty, r.game_mode)),
      total_wins |-> SumOf(RowsOf(rows, r.difficulty, r.game_mode), "wins"),
      total_losses |->
          SumOf(RowsOf(rows, r.difficulty, r.game_mode), "losses"),
      avg_duration |-> SqlAvg(RowsOf(rows, r.difficulty, r.game_mode)),
      difficulty |-> r.difficulty,
      game_mode |-> r.game_mode] : r \in {rows[i] : i \in DOMAIN rows}}

\* an overall query that counts the groups instead of the rows
Overall_CountsGroups(rows) ==
    [total_sessions |-> Cardinality(ByCategory(rows)),
     total_wins |-> OrZero(SqlSum(rows, "wins")),
     total_losses |-> OrZero(SqlSum(rows, "losses")),
     avg_duration |-> MeanOrZero(SqlAvg(rows))]

\* get_statistics, lines 100-116
Overall(rows) ==
    [total_sessions |-> OrZero(Some(Len(rows))),
     total_wins |-> OrZero(SqlSum(rows, "wins")),
     total_losses |-> OrZero(SqlSum(rows, "losses")),
     avg_duration |-> MeanOrZero(SqlAvg(rows))]

\* get_statistics; ok is FALSE when a query raises sqlite3.Error
get_statistics(rows, ok) ==
    IF ok
    THEN [overall |-> Overall(rows), by_category |-> ByCategory(rows)]
    ELSE [overall |-> [total_sessions |-> 0, total_wins |-> 0,
                       total_losses |-> 0, avg_duration |-> 0],
          by_category |-> {}]

\* the sessions a caller of the store saves
StoreRows ==
    {[difficulty |-> d, game_mode |-> m, wins |-> c.wins,
      losses |-> c.losses, duration_seconds |-> c.duration_seconds] :
        d \in {"easy", "hard"}, m \in {"classic", "timed"},
        c \in {[wins |-> 0, losses |-> 1, duration_seconds |-> None],
               [wins |-> 2, losses |-> 1, duration_seconds |-> Some(30)]}}

\* db_manager.save_game_session(...) on a store used on its own
CallSave(row, ok) ==
    /\ term.pc = "store"
    /\ Len(saved) < MaxRecords
    /\ request' = [op |-> "save_game_session", row |-> row]
    /\ response' = [raised |-> ~ok]
    /\ saved' = IF ok
                THEN save_game_session(saved, row.difficulty, row.game_mode,
                         row.wins, row.losses, row.duration_seconds)
                ELSE saved
    /\ UNCHANGED <<now, session, termvars, inflight>>

\* db_manager.get_statistics() on a store used on its own
CallGetStatistics(ok) ==
    /\ term.pc = "store"
    /\ request' = [op |-> "get_statistics"]
    /\ response' = get_statistics(saved, ok)
    /\ UNCHANGED <<now, session, saved, termvars, inflight>>

\* CupGame.show_statistics, lines 317-333, as what it prints: the totals,
\* then the win rate total_wins / (total_wins + total_losses), kept as the
\* fraction <<total_wins, total_wins + total_losses>>.  The division raises
\* ZeroDivisionError when both totals are 0; the except clause of line 331
\* then prints "Error retrieving statistics."
show_statistics(stats) ==
    LET overall == stats.overall
        played == overall.total_wins + overall.total_losses
    IN  IF overall.total_sessions > 0
        THEN [total_sessions |-> Some(overall.total_sessions),
              total_wins |-> Some(overall.total_wins),
              total_losses |-> Some(overall.total_losses),
              win_rate |-> IF played = 0 THEN None
                           ELSE Some(<<overall.total_wins, played>>),
              error |-> played = 0]
        ELSE [total_sessions |-> None, total_wins |-> None,
              total_losses |-> None, win_rate |-> None, error |-> FALSE]

\* CupGame.run, lines 338-347, with "y" typed at "Would you like to see
\* your statistics?": show_statistics runs before the first round
RunStartStatistics ==
    /\ term.pc = "new"
    /\ game' = [game EXCEPT !.start_time = Some(now)]
    /\ term' = [term EXCEPT !.pc = "round"]
    /\ request' = [op |-> "show_statistics"]
    /\ response' = show_statistics(get_statistics(saved, TRUE))
    /\ UNCHANGED <<now, saved, session, inflight>>

\* the games and the lines of a history of terminal sessions
HistoryGames == {<<"easy", "classic">>, <<"easy", "timed">>}
HistoryLines == {left, <<"R","i","g","h","t">>, <<"i","n","v","a","l","i","d">>}

\* the program is started again on the same cup_game.db
NewProcess ==
    /\ term.pc = "done"
    /\ Len(saved) <= MaxHistory
    /\ \E g \in HistoryGames : game' = CupGame(g[1], g[2])
    /\ term' = [NoTerminal EXCEPT !.pc = "new"]
    /\ request' = [op |-> "none"]
    /\ response' = [code |-> 0]
    /\ UNCHANGED <<now, saved, session, inflight>>

----------------------------------------------------------------------------
(* The terminal program before the game: the two menus of __main__ *)

\* the lines a player may type at "Enter choice (1-3): "
SelectLines ==
    {<<"1">>, <<"2">>, <<"3">>, <<"4">>, <<" ","2">>, <<"3"," ">>,
     <<"i","n","v","a","l","i","d">>, <<>>}

\* a select_difficulty that takes any other entry for the first item
DifficultyOf_DefaultsToEasy(choice) ==
    IF choice = <<"2">> THEN Some("medium")
    ELSE IF choice = <<"3">> THEN Some("hard")
    ELSE Some("easy")

\* select_difficulty, lines 375-382: the value returned for a choice, None
\* when the choice is rejected
DifficultyOf(choice) ==
    IF choice = <<"1">> THEN Some("easy")
    ELSE IF choice = <<"2">> THEN Some("medium")
    ELSE IF choice = <<"3">> THEN Some("hard")
    ELSE None

\* select_game_mode, lines 398-405
GameModeOf(choice) ==
    IF choice = <<"1">> THEN Some("classic")
    ELSE IF choice = <<"2">> THEN Some("timed")
    ELSE IF choice = <<"3">> THEN Some("streak")
    ELSE None

\* one pass of the loop of a menu: input() is called, the line is stripped
\* and the function returns, or prints "Invalid choice" and goes round.
\* request.typed is what input() has returned to this call so far; the
\* rejected lines are capped by MaxPrompts
SelectPass(menu, returned, line, value) ==
    /\ term.pc = menu
    /\ value # None \/ term.prompts < MaxPrompts
    /\ request' = [request EXCEPT !.typed = Append(@, line)]
    /\ term' = [term EXCEPT !.prompts = @ + 1, !.entry = Some(line),
                            !.result = value,
                            !.pc = IF value = None THEN menu ELSE returned]
    /\ UNCHANGED <<now, saved, session, response, game, inflight>>

\* select_difficulty, lines 372-385
select_difficulty(line) ==
    SelectPass("select_difficulty", "difficulty_selected", line,
               DifficultyOf(Strip(line)))

\* select_game_mode, lines 395-408
select_game_mode(line) ==
    SelectPass("select_game_mode", "game_mode_selected", line,
               GameModeOf(Strip(line)))

\* __main__, lines 415-416: difficulty is bound, select_game_mode is called
MainSelectGameMode ==
    /\ term.pc = "difficulty_selected"
    /\ response' = [difficulty |-> CHOOSE d \in term.result : TRUE]
    /\ request' = [op |-> "select_game_mode", typed |-> <<>>]
    /\ term' = [term EXCEPT !.pc = "select_game_mode", !.prompts = 0,
                            !.entry = None, !.result = None]
    /\ UNCHANGED <<now, saved, session, game, inflight>>

\* __main__, lines 416-418: game_mode is bound, the CupGame is constructed
MainConstruct ==
    /\ term.pc = "game_mode_selected"
    /\ response' = [difficulty |-> response.difficulty,
                    game_mode |-> CHOOSE m \in term.result : TRUE]
    /\ game' = CupGame(response.difficulty, CHOOSE m \in term.result : TRUE)
    /\ term' = [term EXCEPT !.pc = "constructed"]
    /\ UNCHANGED <<now, saved, session, request, inflight>>

----------------------------------------------------------------------------
(* The system *)

\* time passes: between requests, and while the terminal waits for a line
Tick ==
    /\ now + ClockUnit <= MaxNow
    /\ now' = now + ClockUnit
    /\ UNCHANGED <<session, saved, request, response, game, term, inflight>>

\* the web server, before any request of the caller
InitWeb ==
    /\ session = EmptySession
    /\ request = [op |-> "none"]
    /\ response = [code |-> 0]
    /\ game = CupGame("easy", "classic")
    /\ term = NoTerminal
    /\ inflight = NoneInFlight

\* the terminal program, once select_difficulty and select_game_mode have
\* returned and the CupGame is constructed
InitTerm ==
    /\ session = EmptySession
    /\ request = [op |-> "none"]
    /\ response = [code |-> 0]
    /\ \E difficulty \in Difficulties, game_mode \in GameModes :
          game = CupGame(difficulty, game_mode)
    /\ term = [NoTerminal EXCEPT !.pc = "new"]
    /\ inflight = NoneInFlight

\* one front end runs: the web API or the terminal game
Init ==
    /\ now = 0
    /\ saved = <<>>
    /\ (InitWeb \/ InitTerm)

NextWeb(ok) ==
    \/ \E data \in StartBodies : StartGame(data)
    \/ \E data \in PlayBodies : PlayRound(data, ok)
    \/ EndGame(ok)
    \/ GameStatus(ok)
    \/ Statistics

NextTerm(ok) ==
    \/ RunStart
    \/ TermBeginRound
    \/ \E line \in RawChoices : TermChoose(line)
    \/ \E line \in Answers : TermAgain(line)
    \/ show_summary(ok)

\* the store's INSERT succeeds on every save
Next == NextWeb(TRUE) \/ NextTerm(TRUE) \/ Tick

Spec == Init /\ [][Next]_vars

\* the web API with an end_game request and a game_status poll that may
\* overlap
InitRace ==
    /\ now = 0
    /\ saved = <<>>
    /\ InitWeb

NextRace ==
    \/ \E data \in StartBodies : StartGame(data)
    \/ EndGameCheck
    \/ EndGameSave
    \/ EndGameClear
    \/ StatusCheck
    \/ StatusSave
    \/ Tick

SpecRace == InitRace /\ [][NextRace]_vars

\* the bodies of the requests that may overlap: a game of each mode at the
\* default difficulty, and a choice that is a cup, one that is a cup once
\* normalised, and one that is not
RaceStartBodies == {[game_mode |-> m] : m \in GameModes}
RacePlayBodies ==
    {[choice |-> c] : c \in {left, <<" ","L","E","F","T"," ">>,
                              <<"i","n","v","a","l","i","d">>}}

\* the web API with two play_round requests that may overlap
NextRounds ==
    \/ \E data \in RaceStartBodies : StartGame(data)
    \/ \E r \in PlaySlots, data \in RacePlayBodies : PlayRoundOpen(r, data)
    \/ \E r \in PlaySlots : PlayRoundDraw(r)
    \/ Tick

SpecRounds == InitRace /\ [][NextRounds]_vars

\* the web API with a store whose INSERT may raise sqlite3.Error on any save
NextStoreFails ==
    \/ \E ok \in BOOLEAN : NextWeb(ok)
    \/ Tick

SpecStoreFails == InitRace /\ [][NextStoreFails]_vars

\* the store on its own, as TestDatabaseManager uses it: a new database
\* file, saves that succeed or raise, and statistics queries that succeed
InitStore ==
    /\ now = 0
    /\ saved = <<>>
    /\ session = EmptySession
    /\ request = [op |-> "none"]
    /\ response = [code |-> 0]
    /\ inflight = NoneInFlight
    /\ game = CupGame("easy", "classic")
    /\ term = [NoTerminal EXCEPT !.pc = "store"]

NextStore ==
    \/ \E row \in StoreRows, ok \in BOOLEAN : CallSave(row, ok)
    \/ CallGetStatistics(TRUE)

SpecStore == InitStore /\ [][NextStore]_vars

\* CupGame(difficulty, game_mode) constructed in a process that has
\* constructed one before, as the unit tests do; entry keeps the difficulty
\* and mode of the object constructed before this one
NewCupGame(difficulty, game_mode) ==
    /\ term.pc = "construct"
    /\ game' = CupGame(difficulty, game_mode)
    /\ term' = [term EXCEPT !.entry = Some([difficulty |-> game.difficulty,
                                            game_mode |-> game.game_mode])]
    /\ UNCHANGED <<now, saved, webvars, inflight>>

\* configs derived one after the other: by start_game requests of one
\* caller, or by CupGame objects constructed in one process
InitConfig ==
    /\ now = 0
    /\ saved = <<>>
    /\ session = EmptySession
    /\ request = [op |-> "none"]
    /\ response = [code |-> 0]
    /\ inflight = NoneInFlight
    /\ \E pc \in {"off", "construct"} : term = [NoTerminal EXCEPT !.pc = pc]
    /\ \E difficulty \in Difficulties, game_mode \in GameModes :
          /\ term.pc = "off" => difficulty = "easy" /\ game_mode = "classic"
          /\ game = CupGame(difficulty, game_mode)

NextConfig ==
    \/ \E data \in StartBodies : StartGame(data)
    \/ \E difficulty \in Difficulties, game_mode \in GameModes :
          NewCupGame(difficulty, game_mode)

SpecConfig == InitConfig /\ [][NextConfig]_vars

\* the terminal program alone, with a player who answers: run() is one
\* sequential loop, so each of its steps is taken once it can be, and a
\* prompt "Choose a cup: " gets a valid line in the end (the name of a cup,
\* typed as the prompt lists it)
TermChooseValid ==
    \E i \in DOMAIN game.config.cups :
        TermAnswer(game.config.cups[i], game.config.cups[i])

InitRun ==
    /\ now = 0
    /\ saved = <<>>
    /\ InitTerm

NextRun == NextTerm(TRUE) \/ Tick

FairRun ==
    /\ WF_vars(RunStart)
    /\ WF_vars(TermBeginRound)
    /\ WF_vars(TermChooseValid)
    /\ WF_vars(show_summary(TRUE))

SpecRun == InitRun /\ [][NextRun]_vars /\ FairRun

\* the terminal program run again and again on one store: each session
\* adds its record, and a session may begin by showing the statistics
InitHistory ==
    /\ now = 0
    /\ saved = <<>>
    /\ session = EmptySession
    /\ request = [op |-> "none"]
    /\ response = [code |-> 0]
    /\ inflight = NoneInFlight
    /\ \E g \in HistoryGames : game = CupGame(g[1], g[2])
    /\ term = [NoTerminal EXCEPT !.pc = "new"]

NextHistory ==
    \/ RunStart
    \/ RunStartStatistics
    \/ TermBeginRound
    \/ \E line \in HistoryLines : TermChoose(line)
    \/ \E line \in Answers : TermAgain(line)
    \/ show_summary(TRUE)
    \/ NewProcess
    \/ Tick

SpecHistory == InitHistory /\ [][NextHistory]_vars

\* the terminal program from its start to the construction of the game
InitSelect ==
    /\ now = 0
    /\ saved = <<>>
    /\ session = EmptySession
    /\ request = [op |-> "select_difficulty", typed |-> <<>>]
    /\ response = [code |-> 0]
    /\ inflight = NoneInFlight
    /\ game = CupGame("easy", "classic")
    /\ term = [NoTerminal EXCEPT !.pc = "select_difficulty"]

NextSelect ==
    \/ \E line \in SelectLines : select_difficulty(line)
    \/ MainSelectGameMode
    \/ \E line \in SelectLines : select_game_mode(line)
    \/ MainConstruct

SpecSelect == InitSelect /\ [][NextSelect]_vars

\* validate_choice called on its own, as the unit tests call it
TestStrings ==
    LET words == {left, right, middle, middle_left, middle_right,
                  <<"L","E","F","T">>, <<"L","e","F","t">>,
                  <<"R","i","g","h","t">>, <<"i","n","v","a","l","i","d">>,
                  <<>>}
        pads == {<<>>, <<" ">>}
    IN  {a \o w \o b : a \in pads, w \in words, b \in pads}

CallValidateChoice(choice) ==
    /\ term.pc \in {"test", "tested"}
    /\ term' = [term EXCEPT !.pc = "tested", !.entry = Some(choice),
                            !.result = Some(validate_choice(game, choice))]
    /\ UNCHANGED <<now, saved, webvars, game, inflight>>

InitValidate ==
    /\ now = 0
    /\ saved = <<>>
    /\ session = EmptySession
    /\ request = [op |-> "none"]
    /\ response = [code |-> 0]
    /\ inflight = NoneInFlight
    /\ \E difficulty \in Difficulties, game_mode \in GameModes :
          game = CupGame(difficulty, game_mode)
    /\ term = [NoTerminal EXCEPT !.pc = "test"]

NextValidate == \E choice \in TestStrings : CallValidateChoice(choice)

SpecValidate == InitValidate /\ [][NextValidate]_vars

----------------------------------------------------------------------------
(* The claims *)

\* the session under the caller's key holds an active game
Active(s) == "game_active" \in DOMAIN s /\ s.game_active = TRUE
\* the session under the caller's key held a game that is over
Finished(s) == "game_active" \in DOMAIN s /\ s.game_active = FALSE
\* a raw choice after lower-casing and trimming
Normalized(raw) == Strip(Lower(raw))
\* the raw choice a play_round request carries
ChoiceOf(req) == Get(req.data, "choice", <<>>)
\* x is one of the cups of a config
IsCup(x, config) == \E i \in DOMAIN config.cups : config.cups[i] = x
\* this step is the web API handling a request of kind op
WebStep(op) == term.pc = "off" /\ now' = now /\ request'.op = op
\* the time limit of a timed session has elapsed
Expired(mode, start, config) ==
    mode = "timed" /\ now - start >= config.time_limit
\* this step is the terminal taking a line at "Choose a cup: "
ChooseStep == term.pc = "choose" /\ term'.prompts = term.prompts + 1
\* the line typed last
Entry(t) == CHOOSE line \in t.entry : TRUE

\* C1: in the web API every game that goes from active to inactive has
\* exactly one record saved by the request that ends it.
C1_EveryFinishSavesOneRecord ==
    [][(term.pc = "off" /\ Active(session) /\ ~Active(session'))
        => Len(saved') = 1]_vars

\* C2: when a game_status poll that detects time expiry and an end_game
\* request for the same active session have both been handled, exactly one
\* of the two has saved a record.
C2_ExactlyOneRequestSaves ==
    LET e == inflight["end_game"]
        g == inflight["game_status"]
    IN  (/\ e.pc = "done"
         /\ g.pc = "done"
         /\ Get(g.response, "reason", "") = "Time expired")
        => Len(e.saved) + Len(g.saved) = 1

\* C3: in timed mode a play_round made once the time limit has elapsed ends
\* the game (web: game_over, game_active false; terminal: returns False),
\* draws no cup and no prize and leaves wins and losses unchanged.
C3_ExpiredPlayRoundEndsGame ==
    [][/\ (/\ WebStep("play_round")
           /\ Active(session)
           /\ Expired(session.game_mode, session.start_time, session.config))
          => /\ ~Active(session')
             /\ Get(response', "game_over", FALSE) = TRUE
             /\ "prize_cup" \notin DOMAIN response'
             /\ "prize" \notin DOMAIN response'
             /\ session'.wins = session.wins
             /\ session'.losses = session.losses
       /\ (/\ term.pc = "round"
           /\ term'.pc # "round"
           /\ \E start \in game.start_time :
                 Expired(game.game_mode, start, game.config))
          => /\ term'.result = Some(FALSE)
             /\ term'.prize_cup = None
             /\ term'.prize = None
             /\ game' = game]_vars

\* C4: in streak mode the round the player loses ends the game with reason
\* streak broken (web: game_active false, game_over true; terminal:
\* play_round returns False and run() goes to the summary), and a later
\* play_round on that session gets 'No active game' and plays no round.
C4_StreakLossEndsGame ==
    [][/\ (/\ WebStep("play_round")
           /\ Active(session)
           /\ session.game_mode = "streak"
           /\ session'.losses = session.losses + 1)
          => /\ ~Active(session')
             /\ Get(response', "game_over", FALSE) = TRUE
             /\ Get(response', "reason", "") = "Streak broken"
       /\ (/\ WebStep("play_round")
           /\ Finished(session)
           /\ session.game_mode = "streak")
          => /\ Get(response', "error", "") = "No active game"
             /\ "prize_cup" \notin DOMAIN response'
             /\ session' = session
       /\ (/\ Get(session', "game_mode", "") = "streak"
           /\ session'.losses > 0)
          => ~Active(session')
       /\ (/\ ChooseStep
           /\ game.game_mode = "streak"
           /\ game'.losses = game.losses + 1)
          => /\ term'.result = Some(FALSE)
             /\ term'.pc = "summary"
       /\ (game'.game_mode = "streak" /\ game'.losses > 0)
          => term'.pc \in {"summary", "done"}]_vars

C4_Witness ==
    /\ request.op = "play_round"
    /\ Get(response, "error", "") = "No active game"
    /\ Finished(session)
    /\ session.game_mode = "streak"
    /\ session.losses = 1
    /\ session.wins = 2

\* C5: a play_round that resolves a round adds exactly 1 to wins when the
\* normalized choice is the drawn prize cup and exactly 1 to losses when it
\* is not, and leaves the other counter alone; wins + losses of a session
\* never decreases.
C5_OneCounterPerRound ==
    [][/\ (WebStep("play_round") /\ "prize_cup" \in DOMAIN response')
          => IF Normalized(ChoiceOf(request')) = response'.prize_cup
             THEN /\ session'.wins = session.wins + 1
                  /\ session'.losses = session.losses
             ELSE /\ session'.wins = session.wins
                  /\ session'.losses = session.losses + 1
       /\ (/\ term.pc = "off"
           /\ request'.op # "start_game"
           /\ "wins" \in DOMAIN session)
          => session'.wins + session'.losses >= session.wins + session.losses
       /\ (ChooseStep /\ term'.pc # "choose")
          => IF Normalized(Entry(term')) \in term.prize_cup
             THEN /\ game'.wins = game.wins + 1
                  /\ game'.losses = game.losses
             ELSE /\ game'.wins = game.wins
                  /\ game'.losses = game.losses + 1
       /\ game'.wins + game'.losses >= game.wins + game.losses]_vars

C5_Witness ==
    /\ request.op = "play_round"
    /\ Get(response, "won_round", FALSE) = TRUE
    /\ session.wins = 2
    /\ session.losses = 0

\* C6: a session with a round cap never holds more rounds than the cap:
\* wins + losses <= max_rounds in every reachable state, web and terminal.
C6_RoundCap ==
    /\ ("config" \in DOMAIN session /\ "max_rounds" \in DOMAIN session.config)
       => session.wins + session.losses <= session.config.max_rounds
    /\ \A max_rounds \in game.config.max_rounds :
          game.wins + game.losses <= max_rounds

C6_Witness ==
    /\ "config" \in DOMAIN session
    /\ "max_rounds" \in DOMAIN session.config
    /\ session.wins + session.losses = session.config.max_rounds

\* C7 as stated: once the session under the caller's key is inactive, it is
\* never active again.
C7_NeverReactivated ==
    [][(term.pc = "off" /\ Finished(session)) => ~Active(session')]_vars

\* C7 as amended: a finished session becomes active again only by a
\* start_game request, which starts a new game with wins = losses = 0,
\* round_number = 1 and start_time = now; play_round, end_game and
\* game_status leave a finished session inactive.
C7_ReactivatedOnlyByStartGame ==
    [][/\ (term.pc = "off" /\ Finished(session) /\ Active(session'))
          => /\ request'.op = "start_game"
             /\ session'.wins = 0
             /\ session'.losses = 0
             /\ session'.round_number = 1
             /\ session'.start_time = now
       /\ (/\ term.pc = "off"
           /\ Finished(session)
           /\ request'.op \in {"play_round", "end_game", "game_status"})
          => Finished(session')]_vars

C7_Witness ==
    /\ Finished(session)
    /\ session.wins = 1
    /\ request.op = "game_status"
    /\ response = [code |-> 200, game_active |-> FALSE]

\* C8: play_round and end_game on a session with no active game (never
\* started, or finished) answer 'No active game', leave the session as it
\* is (wins, losses, round_number, game_active) and save no record.
C8_NoActiveGame ==
    [][(/\ (WebStep("play_round") \/ WebStep("end_game"))
        /\ ~Active(session))
       => /\ response' = [code |-> 400, error |-> "No active game"]
          /\ session' = session
          /\ saved' = <<>>]_vars

C8_Witness ==
    /\ request.op = "end_game"
    /\ response = [code |-> 400, error |-> "No active game"]
    /\ Finished(session)
    /\ session.wins + session.losses > 0

\* C9: a round attempt whose choice, lower-cased and trimmed, is not a cup
\* of the session is rejected: the web answers 'Invalid cup choice', the
\* terminal prompts again; wins, losses, round_number and the active flag
\* stay as they are and no record is saved.  Each line typed is one prompt.
C9_InvalidChoiceRejected ==
    [][/\ (/\ WebStep("play_round")
           /\ Active(session)
           /\ ~IsCup(Normalized(ChoiceOf(request')), session.config))
          => /\ response' = [code |-> 400, error |-> "Invalid cup choice"]
             /\ session' = session
             /\ saved' = <<>>
       /\ (ChooseStep /\ ~IsCup(Normalized(Entry(term')), game.config))
          => /\ term'.pc = "choose"
             /\ term'.result = None
             /\ game' = game
             /\ saved' = saved
       /\ (ChooseStep /\ IsCup(Normalized(Entry(term')), game.config))
          => term'.pc # "choose"]_vars

C9_Witness ==
    /\ request.op = "play_round"
    /\ response = [code |-> 400, error |-> "Invalid cup choice"]
    /\ Active(session)
    /\ session.wins = 1

\* C10: validate_choice returns true exactly when the string, trimmed and
\* case-folded, is one of the configured cup names.
C10_ValidateChoiceTrimsAndFolds ==
    term.pc = "tested"
    => \A choice \in term.entry :
         term.result = Some(IsCup(Normalized(choice), game.config))

\* the cups and the shuffle delay (in tenths of a second) of a difficulty
CupsOf(difficulty) ==
    CASE difficulty = "easy" -> <<left, right>>
      [] difficulty = "medium" -> <<left, middle, right>>
      [] difficulty = "hard" -> <<left, middle_left, middle_right, right>>
DelayOf(difficulty) ==
    CASE difficulty = "easy" -> 20
      [] difficulty = "medium" -> 15
      [] difficulty = "hard" -> 10
\* the names of a list are pairwise distinct
Distinct(list) ==
    \A i, j \in DOMAIN list : list[i] = list[j] => i = j

\* C11: for every difficulty and every mode the config the web start_game
\* stores (and returns) and the config the terminal _get_game_config
\* derives hold the same cups and shuffle delay: easy -> [left, right],
\* 2.0 s; medium -> [left, middle, right], 1.5 s; hard -> [left,
\* middle-left, middle-right, right], 1.0 s; the cups are pairwise distinct.
C11_SameCupsBothFrontEnds ==
    /\ "config" \in DOMAIN session
       => LET other == _get_game_config(session.difficulty,
                                        session.game_mode)
          IN  /\ session.config.cups = CupsOf(session.difficulty)
              /\ session.config.shuffle_time = DelayOf(session.difficulty)
              /\ session.config.cups = other.cups
              /\ session.config.shuffle_time = other.shuffle_time
              /\ Distinct(session.config.cups)
    /\ (request.op = "start_game" /\ response.code = 200)
       => response.config = session.config
    /\ game.config.cups = CupsOf(game.difficulty)
    /\ game.config.shuffle_time = DelayOf(game.difficulty)
    /\ Distinct(game.config.cups)

C11_Witness ==
    /\ request.op = "start_game"
    /\ response.code = 200
    /\ session.difficulty = "hard"
    /\ Len(session.config.cups) = 4
    /\ session.config.shuffle_time = 10

\* C12: for every difficulty the derived config has a time limit of 30 s
\* exactly when the mode is timed and a round cap of 10 exactly when the
\* mode is streak (web: the key is absent otherwise; terminal: time_limit
\* is absent and max_rounds is None otherwise).
C12_ModeKeys ==
    /\ "config" \in DOMAIN session
       => /\ IF session.game_mode = "timed"
             THEN Get(session.config, "time_limit", 0) = 30
             ELSE "time_limit" \notin DOMAIN session.config
          /\ IF session.game_mode = "streak"
             THEN Get(session.config, "max_rounds", 0) = 10
             ELSE "max_rounds" \notin DOMAIN session.config
    /\ IF game.game_mode = "timed"
       THEN Get(game.config, "time_limit", 0) = 30
       ELSE "time_limit" \notin DOMAIN game.config
    /\ IF game.game_mode = "streak"
       THEN game.config.max_rounds = Some(10)
       ELSE game.config.max_rounds = None

C12_Witness ==
    /\ term.pc = "round"
    /\ game.game_mode = "timed"
    /\ game.difficulty = "medium"
    /\ game.config.time_limit = 30
    /\ game.config.max_rounds = None

\* C13: when save_game_session fails while a round that ends the game is
\* being resolved (streak broken or round cap reached: the session goes
\* inactive with one round more counted, and no row is inserted), the
\* response still carries that round's outcome: won_round, prize_cup and
\* the final score, which is the session's wins and losses.
C13_OutcomeSurvivesStoreFailure ==
    [][(/\ WebStep("play_round")
        /\ Active(session)
        /\ ~Active(session')
        /\ session'.wins + session'.losses
              = session.wins + session.losses + 1
        /\ saved' = <<>>)
       => /\ "won_round" \in DOMAIN response'
          /\ "prize_cup" \in DOMAIN response'
          /\ Get(response', "final_score", [wins |-> -1, losses |-> -1])
               = [wins |-> session'.wins, losses |-> session'.losses]]_vars

\* this step is the web API resolving a round (a cup was drawn and scored)
RoundStep == WebStep("play_round") /\ "prize_cup" \in DOMAIN response'
\* this step is the terminal scoring a round
TermRoundStep == ChooseStep /\ term'.pc # "choose"

\* C14: in streak mode the streak-broken rule comes before the round-cap
\* rule: a lost round finishes the game with reason streak broken, also
\* when it is the round that brings wins + losses to the cap; after 9 wins
\* a loss finishes the session at round 10 with wins = 9 and losses = 1.
\* (The terminal play_round returns False at once and run() goes to the
\* summary.)
C14_StreakBrokenBeforeCap ==
    [][/\ (/\ RoundStep
           /\ session.game_mode = "streak"
           /\ response'.won_round = FALSE)
          => /\ ~Active(session')
             /\ response'.game_over = TRUE
             /\ response'.reason = "Streak broken"
             /\ response'.final_score
                  = [wins |-> session.wins, losses |-> session.losses + 1]
             /\ session'.wins = session.wins
             /\ session'.losses = session.losses + 1
             /\ session'.round_number = session.round_number
       /\ (/\ RoundStep
           /\ session.game_mode = "streak"
           /\ response'.won_round = FALSE
           /\ session.wins = 9)
          => /\ session'.round_number = 10
             /\ session'.wins = 9
             /\ session'.losses = 1
       /\ (/\ TermRoundStep
           /\ game.game_mode = "streak"
           /\ game'.losses = game.losses + 1)
          => /\ term'.result = Some(FALSE)
             /\ term'.pc = "summary"
             /\ game'.wins = game.wins]_vars

C14_Witness ==
    /\ request.op = "play_round"
    /\ Get(response, "reason", "") = "Streak broken"
    /\ Finished(session)
    /\ session.wins = 9
    /\ session.losses = 1
    /\ session.round_number = 10

\* C15: in a session with a round cap (streak mode, cap 10) a won round
\* finishes the game with reason rounds complete exactly when it brings
\* wins + losses to the cap, not at an earlier round, and a session at its
\* cap is inactive.
C15_CapReachedByWin ==
    [][/\ (/\ RoundStep
           /\ "max_rounds" \in DOMAIN session.config
           /\ response'.won_round = TRUE)
          => IF session.wins + session.losses + 1
                  >= session.config.max_rounds
             THEN /\ ~Active(session')
                  /\ response'.game_over = TRUE
                  /\ response'.reason = "Max rounds completed"
                  /\ response'.final_score
                       = [wins |-> session.wins + 1,
                          losses |-> session.losses]
             ELSE /\ Active(session')
                  /\ response'.game_over = FALSE
       /\ (/\ "config" \in DOMAIN session'
           /\ "max_rounds" \in DOMAIN session'.config
           /\ session'.wins + session'.losses >= session'.config.max_rounds)
          => ~Active(session')
       /\ (TermRoundStep /\ game'.wins = game.wins + 1)
          => \A max_rounds \in game.config.max_rounds :
               IF game'.wins + game'.losses >= max_rounds
               THEN term'.result = Some(FALSE) /\ term'.pc = "summary"
               ELSE term'.result = Some(TRUE) /\ term'.pc = "round"]_vars

C15_Witness ==
    /\ request.op = "play_round"
    /\ Get(response, "reason", "") = "Max rounds completed"
    /\ Get(response, "won_round", FALSE) = TRUE
    /\ Finished(session)
    /\ session.wins = 10
    /\ session.losses = 0

\* C16: a resolved round leaves the game active (web: game_over false and
\* game_active true; terminal: play_round returns True and run() goes on)
\* whenever it is not a lost round in streak mode and the round cap is
\* unset or not yet reached; in classic mode every resolved round, won or
\* lost, leaves the game active.
C16_OtherwiseStaysActive ==
    [][/\ (/\ RoundStep
           /\ ~(session.game_mode = "streak" /\ response'.won_round = FALSE)
           /\ \/ "max_rounds" \notin DOMAIN session.config
              \/ session.wins + session.losses + 1
                   < session.config.max_rounds)
          => /\ Active(session')
             /\ response'.game_over = FALSE
             /\ session'.round_number = session.round_number + 1
       /\ (RoundStep /\ session.game_mode = "classic")
          => Active(session') /\ response'.game_over = FALSE
       /\ (/\ TermRoundStep
           /\ ~(/\ game.game_mode = "streak"
                /\ game'.losses = game.losses + 1)
           /\ \A max_rounds \in game.config.max_rounds :
                 game.wins + game.losses + 1 < max_rounds)
          => /\ term'.result = Some(TRUE)
             /\ term'.pc \in {"again", "round"}
       /\ (TermRoundStep /\ game.game_mode = "classic")
          => term'.result = Some(TRUE) /\ term'.pc = "again"]_vars

C16_Witness ==
    /\ term.pc = "again"
    /\ term.result = Some(TRUE)
    /\ game.game_mode = "classic"
    /\ game.wins = 1
    /\ game.losses = 1

\* C17: a game_status poll on an active timed session reports game over
\* with reason time expired and makes the session inactive exactly when
\* the elapsed time is >= 30 s, and leaves wins and losses as they are;
\* before the limit, and in classic or streak mode at any time, the poll
\* changes nothing in the session and inserts nothing in the store.
C17_StatusPollExpiry ==
    [][(WebStep("game_status") /\ Active(session))
       => IF /\ session.game_mode = "timed"
             /\ now - session.start_time >= 30
          THEN /\ ~Active(session')
               /\ Get(response', "game_over", FALSE) = TRUE
               /\ Get(response', "reason", "") = "Time expired"
               /\ session'.wins = session.wins
               /\ session'.losses = session.losses
          ELSE /\ session' = session
               /\ saved' = <<>>
               /\ response'.game_active = TRUE
               /\ "game_over" \notin DOMAIN response']_vars

C17_Witness ==
    /\ request.op = "game_status"
    /\ Get(response, "reason", "") = "Time expired"
    /\ Finished(session)
    /\ now - session.start_time = 30
    /\ session.wins = 1
    /\ session.losses = 1

\* C18: in a timed session whose time limit has elapsed a play_round call
\* finishes the session with reason time expired whatever raw choice it
\* carries; an invalid choice after expiry also ends the game and is not
\* reported as an invalid choice.
C18_ExpiryBeforeValidation ==
    [][(/\ WebStep("play_round")
        /\ Active(session)
        /\ Expired(session.game_mode, session.start_time, session.config))
       => /\ ~Active(session')
          /\ Get(response', "reason", "") = "Time limit exceeded"
          /\ Get(response', "error", "") # "Invalid cup choice"]_vars

\* C19: the record saved when a session finishes carries the session's
\* difficulty and game mode and its final wins and losses, and a request
\* saves at most one; a terminal run() that reaches its summary has saved
\* exactly one such record, and none before.
C19_RecordCarriesFinalScore ==
    [][/\ (term.pc = "off" /\ now' = now /\ saved' # <<>>)
          => /\ Len(saved') = 1
             /\ Active(session)
             /\ ~Active(session')
             /\ saved'[1].difficulty = session.difficulty
             /\ saved'[1].game_mode = session.game_mode
             /\ saved'[1].wins = session'.wins
             /\ saved'[1].losses = session'.losses
             /\ session'.difficulty = session.difficulty
             /\ session'.game_mode = session.game_mode
       /\ (term.pc = "summary" /\ term'.pc = "done")
          => /\ Len(saved') = 1
             /\ saved'[1].difficulty = game.difficulty
             /\ saved'[1].game_mode = game.game_mode
             /\ saved'[1].wins = game.wins
             /\ saved'[1].losses = game.losses
       /\ term'.pc \in {"new", "round", "choose", "again", "summary"}
          => saved' = <<>>
       /\ term'.pc = "done"
          => Len(saved') = 1 /\ game' = game]_vars

C19_Witness ==
    /\ term.pc = "done"
    /\ game.game_mode = "streak"
    /\ game.wins = 2
    /\ game.losses = 1
    /\ Len(saved) = 1
    /\ saved[1].wins = 2
    /\ saved[1].losses = 1
    /\ saved[1].game_mode = "streak"

\* C20: in every round outcome the winning cup is one of the cups of the
\* session's config, and so is the player's choice that is scored (the
\* raw choice lower-cased and trimmed).
C20_CupsOfTheConfig ==
    [][/\ RoundStep
          => /\ IsCup(response'.prize_cup, session.config)
             /\ IsCup(Normalized(ChoiceOf(request')), session.config)
       /\ \A prize_cup \in term'.prize_cup : IsCup(prize_cup, game'.config)
       /\ TermRoundStep
          => /\ IsCup(Normalized(Entry(term')), game.config)
             /\ \A prize_cup \in term.prize_cup :
                   IsCup(prize_cup, game.config)]_vars

C20_Witness ==
    /\ request.op = "play_round"
    /\ Active(session)
    /\ session.difficulty = "hard"
    /\ ChoiceOf(request) = <<"M","i","d","d","l","e","-","L","e","f","t","\n">>
    /\ Get(response, "prize_cup", <<>>) = middle_right
    /\ Get(response, "won_round", TRUE) = FALSE

\* the distinct (difficulty, game mode) pairs of the records
PairsOf(rows) ==
    {<<rows[i].difficulty, rows[i].game_mode>> : i \in DOMAIN rows}
\* the sum of a counter over the records, added up by position
RECURSIVE TotalOf(_, _, _)
TotalOf(rows, counter, n) ==
    IF n = 0 THEN 0 ELSE TotalOf(rows, counter, n - 1) + rows[n][counter]

\* C21: get_statistics returns total_sessions equal to the number of saved
\* records, total_wins and total_losses equal to the sums of their wins and
\* losses, and one by_category entry per distinct (difficulty, game mode)
\* pair; on an empty store the totals are 0 and by_category is empty.
C21_StatisticsAreTheTotals ==
    request.op = "get_statistics"
    => /\ response.overall.total_sessions = Len(saved)
       /\ response.overall.total_wins = TotalOf(saved, "wins", Len(saved))
       /\ response.overall.total_losses
            = TotalOf(saved, "losses", Len(saved))
       /\ Cardinality(response.by_category) = Cardinality(PairsOf(saved))
       /\ \A pair \in PairsOf(saved) :
             \E entry \in response.by_category :
                /\ entry.difficulty = pair[1]
                /\ entry.game_mode = pair[2]
       /\ saved = <<>>
          => /\ response.overall.total_sessions = 0
             /\ response.overall.total_wins = 0
             /\ response.overall.total_losses = 0
             /\ response.by_category = {}

C21_Witness ==
    /\ request.op = "get_statistics"
    /\ Len(saved) = 3
    /\ response.overall.total_sessions = 3
    /\ response.overall.total_wins = 4
    /\ response.overall.total_losses = 3
    /\ Cardinality(response.by_category) = 2

\* C22: the store is append-only: a save_game_session that succeeds adds
\* exactly one record, holding the difficulty, mode, wins, losses and
\* duration it was given, after the records already there, which stay as
\* they are; a save that raises and get_statistics leave the store as it is.
C22_AppendOnly ==
    [][term.pc = "store"
       => /\ Len(saved') >= Len(saved)
          /\ SubSeq(saved', 1, Len(saved)) = saved
          /\ (request'.op = "save_game_session" /\ ~response'.raised)
             => /\ Len(saved') = Len(saved) + 1
                /\ saved'[Len(saved')] = request'.row
          /\ (request'.op = "save_game_session" /\ response'.raised)
             => saved' = saved
          /\ request'.op = "get_statistics" => saved' = saved]_vars

C22_Witness ==
    /\ term.pc = "store"
    /\ request.op = "save_game_session"
    /\ ~response.raised
    /\ Len(saved) = 3
    /\ saved[3] = request.row
    /\ saved[1] # saved[3]
    /\ saved[1].duration_seconds = None

\* C23: a session is discarded only after its summary has been persisted:
\* a start_game request of a caller whose game is still active with rounds
\* played, and which replaces that game's wins and losses, has a record
\* saved for that game.
C23_NoDiscardWithoutRecord ==
    [][(/\ WebStep("start_game")
        /\ Active(session)
        /\ session.wins + session.losses > 0
        /\ response'.code = 200)
       => /\ Len(saved') = 1
          /\ saved'[1].wins = session.wins
          /\ saved'[1].losses = session.losses]_vars

\* the response reports a round that was resolved and left the game active
Resolved(resp) ==
    "prize_cup" \in DOMAIN resp /\ resp.game_over = FALSE

\* C24: two play_round requests for the same session that are in flight
\* at the same time (both read the same session) lose no update: when both
\* have completed, each having resolved a round, the caller's session has
\* wins + losses grown by 2 and round_number grown by 2.
C24_NoLostUpdate ==
    LET a == inflight["play_round_a"]
        b == inflight["play_round_b"]
    IN  (/\ a.pc = "done"
         /\ b.pc = "done"
         /\ Resolved(a.response)
         /\ Resolved(b.response)
         /\ a.read = b.read)
        => /\ session.wins + session.losses
                = a.read.wins + a.read.losses + 2
           /\ session.round_number = a.read.round_number + 2

\* C25: within one session wins and losses are changed only by play_round:
\* end_game, game_status and the statistics request never change wins,
\* losses or the config, whether they succeed or fail.
C25_OnlyPlayRoundScores ==
    [][(/\ term.pc = "off"
        /\ now' = now
        /\ request'.op \in {"end_game", "game_status", "statistics"})
       => IF "wins" \in DOMAIN session
          THEN /\ session'.wins = session.wins
               /\ session'.losses = session.losses
               /\ session'.config = session.config
          ELSE session' = session]_vars

C25_Witness ==
    /\ request.op = "end_game"
    /\ response.code = 200
    /\ Finished(session)
    /\ session.wins = 1
    /\ session.losses = 1
    /\ response.final_score = [wins |-> 1, losses |-> 1]

\* C26: start_game with a difficulty outside {easy, medium, hard} or a
\* game mode outside {classic, timed, streak} returns an error and leaves
\* the caller's session (active flag, wins, losses, config, start time) as
\* it is.
C26_InvalidStartRejected ==
    [][(/\ WebStep("start_game")
        /\ \/ Get(request'.data, "difficulty", "easy")
                \notin {"easy", "medium", "hard"}
           \/ Get(request'.data, "game_mode", "classic")
                \notin {"classic", "timed", "streak"})
       => /\ response'.code = 400
          /\ response'.error \in {"Invalid difficulty", "Invalid game mode"}
          /\ session' = session
          /\ saved' = <<>>]_vars

C26_Witness ==
    /\ request.op = "start_game"
    /\ Get(request.data, "game_mode", "classic") = "zen"
    /\ response = [code |-> 400, error |-> "Invalid game mode"]
    /\ Active(session)
    /\ session.wins = 1
    /\ session.start_time < now

\* the keys and values the mode adds to a config, and nothing else
WebModeKeys(config, game_mode) ==
    /\ DOMAIN config = {"cups", "shuffle_time"}
                        \cup (IF game_mode = "timed" THEN {"time_limit"}
                              ELSE IF game_mode = "streak"
                              THEN {"max_rounds"} ELSE {})
    /\ game_mode = "timed" => config.time_limit = 30
    /\ game_mode = "streak" => config.max_rounds = 10
TermModeKeys(config, game_mode) ==
    /\ DOMAIN config = {"cups", "shuffle_time", "max_rounds"}
                        \cup (IF game_mode = "timed" THEN {"time_limit"}
                              ELSE {})
    /\ game_mode = "timed" => config.time_limit = 30
    /\ config.max_rounds = IF game_mode = "streak" THEN Some(10) ELSE None

\* C27: deriving a configuration has no side effects: the config of a
\* session depends only on its own difficulty and mode, whatever session
\* was created before it; a classic game created after a timed or streak
\* game of the same difficulty has no time limit and no round cap.
C27_ConfigHasNoMemory ==
    [][/\ (WebStep("start_game") /\ response'.code = 200)
          => /\ session'.config.cups = CupsOf(session'.difficulty)
             /\ session'.config.shuffle_time = DelayOf(session'.difficulty)
             /\ WebModeKeys(session'.config, session'.game_mode)
       /\ term'.pc = "construct"
          => /\ game'.config.cups = CupsOf(game'.difficulty)
             /\ game'.config.shuffle_time = DelayOf(game'.difficulty)
             /\ TermModeKeys(game'.config, game'.game_mode)
       /\ (/\ term'.pc = "construct"
           /\ game.game_mode \in {"timed", "streak"}
           /\ game'.difficulty = game.difficulty
           /\ game'.game_mode = "classic")
          => /\ "time_limit" \notin DOMAIN game'.config
             /\ game'.config.max_rounds = None
       /\ (/\ WebStep("start_game")
           /\ response'.code = 200
           /\ Get(session, "game_mode", "") \in {"timed", "streak"}
           /\ session'.difficulty = session.difficulty
           /\ session'.game_mode = "classic")
          => DOMAIN session'.config = {"cups", "shuffle_time"}]_vars

C27_Witness ==
    /\ term.pc = "construct"
    /\ term.entry = Some([difficulty |-> "hard", game_mode |-> "timed"])
    /\ game.difficulty = "hard"
    /\ game.game_mode = "classic"
    /\ "time_limit" \notin DOMAIN game.config
    /\ game.config.max_rounds = None

\* C28: when a terminal game is summarised the saved duration is
\* now - start_time for every start_time at which the game was started,
\* and it is omitted (None) only if the game never started.
C28_DurationIsElapsedTime ==
    [][(term.pc = "summary" /\ term'.pc = "done" /\ Len(saved') = 1)
       => IF game.start_time = None
          THEN saved'[1].duration_seconds = None
          ELSE \E start \in game.start_time :
                 saved'[1].duration_seconds = Some(now - start)]_vars

\* C29: if save_game_session fails during end_game (no row is inserted),
\* the request reports an error and the session stays as it was: active,
\* wins and losses unchanged; an end_game on an active session whose save
\* succeeds saves the record with the session's counters.
C29_FailedEndGameKeepsSession ==
    [][/\ (WebStep("end_game") /\ Active(session) /\ saved' = <<>>)
          => /\ response' = [code |-> 500, error |-> "Failed to end game"]
             /\ session' = session
       /\ (WebStep("end_game") /\ Active(session) /\ saved' # <<>>)
          => /\ response'.code = 200
             /\ ~Active(session')
             /\ Len(saved') = 1
             /\ saved'[1].wins = session.wins
             /\ saved'[1].losses = session.losses]_vars

C29_Witness ==
    /\ request.op = "end_game"
    /\ response = [code |-> 500, error |-> "Failed to end game"]
    /\ Active(session)
    /\ session.wins = 1
    /\ session.losses = 1

\* C30: in timed mode wins and losses never change at a moment when the
\* time elapsed since the start is >= the time limit: not by a request on
\* the running web session, and not by a terminal round whose prompt was
\* issued before the limit and is answered after it.
C30_NoScoreAfterTimeLimit ==
    [][/\ (/\ term.pc = "off"
           /\ Active(session)
           /\ request'.op # "start_game"
           /\ Expired(session.game_mode, session.start_time,
                      session.config))
          => /\ session'.wins = session.wins
             /\ session'.losses = session.losses
       /\ (\E start \in game.start_time :
              Expired(game.game_mode, start, game.config))
          => /\ game'.wins = game.wins
             /\ game'.losses = game.losses]_vars

\* the terminal game is over: run() has left its loop
TermOver == term.pc \in {"summary", "done"}

\* C31: every finished streak-mode session has losses <= 1, in the session,
\* in the terminal game and in the record saved for it, and a streak-mode
\* session that finishes with reason max rounds completed has wins = 10 and
\* losses = 0 (the terminal game has no reason: a streak game that is over
\* without a lost round has its 10 wins).
C31_StreakFinalScore ==
    /\ (Finished(session) /\ session.game_mode = "streak")
       => /\ session.losses <= 1
          /\ session.wins + session.losses <= 10
          /\ Get(response, "reason", "") = "Max rounds completed"
             => session.wins = 10 /\ session.losses = 0
    /\ (TermOver /\ game.game_mode = "streak")
       => /\ game.losses <= 1
          /\ game.wins + game.losses <= 10
          /\ game.losses = 0 => game.wins = 10
    /\ \A i \in DOMAIN saved :
          saved[i].game_mode = "streak"
          => /\ saved[i].losses <= 1
             /\ saved[i].losses = 0 /\ term.pc # "off" => saved[i].wins = 10

C31_Witness ==
    /\ request.op = "play_round"
    /\ Get(response, "reason", "") = "Max rounds completed"
    /\ Finished(session)
    /\ session.game_mode = "streak"
    /\ Len(saved) = 1
    /\ saved[1].wins = 10
    /\ saved[1].losses = 0

\* C32: in the web session round_number = wins + losses + 1 in every state
\* in which the game is active, after any sequence of start_game and
\* play_round requests (and of the other requests, which leave the three
\* alone); the round number a response reports is the session's.
C32_RoundNumber ==
    /\ Active(session)
       => session.round_number = session.wins + session.losses + 1
    /\ (Active(session) /\ "round_number" \in DOMAIN response)
       => response.round_number = session.round_number

C32_Witness ==
    /\ request.op = "play_round"
    /\ Active(session)
    /\ session.wins = 1
    /\ session.losses = 1
    /\ session.round_number = 3
    /\ Get(response, "round_number", 0) = 3

\* C33: in streak mode the terminal loop run() terminates after at most 10
\* resolved rounds, provided every prompt gets a valid choice in the end,
\* and then saves the summary; it never waits on a "Play another round?"
\* prompt, which is asked in classic mode only.
C33_StreakRunTerminates ==
    /\ [](term.pc = "again" => game.game_mode = "classic")
    /\ [](game.game_mode = "streak" => game.wins + game.losses <= 10)
    /\ (game.game_mode = "streak")
         ~> (/\ term.pc = "done"
             /\ Len(saved) = 1
             /\ saved[1].game_mode = "streak"
             /\ saved[1].wins = game.wins
             /\ saved[1].losses = game.losses)

C33_Witness ==
    /\ term.pc = "done"
    /\ game.game_mode = "streak"
    /\ game.wins = 10
    /\ game.losses = 0
    /\ Len(saved) = 1
    /\ saved[1].wins = 10

\* this step is run() showing the statistics before the first round
ShowStep == term.pc = "new" /\ request'.op = "show_statistics"

\* C34: for every store content reachable through game sessions that holds
\* at least one record, show_statistics displays the totals and the overall
\* win rate without taking its error path, also when every recorded session
\* has 0 wins and 0 losses.
C34_StatisticsShown ==
    [][(ShowStep /\ Len(saved) >= 1)
       => /\ response'.error = FALSE
          /\ response'.total_sessions = Some(Len(saved))
          /\ response'.total_wins = Some(TotalOf(saved, "wins", Len(saved)))
          /\ response'.total_losses
               = Some(TotalOf(saved, "losses", Len(saved)))
          /\ response'.win_rate # None]_vars

\* the entries of a menu
Digits == <<(<<"1">>), (<<"2">>), (<<"3">>)>>
\* the value item k of a menu stands for
ItemOf(menu, k) ==
    IF menu = "difficulty_selected" THEN <<"easy", "medium", "hard">>[k]
    ELSE <<"classic", "timed", "streak">>[k]
\* a menu is waiting for a line; a menu has returned
AtMenu == term.pc \in {"select_difficulty", "select_game_mode"}
MenuReturned == term.pc \in {"difficulty_selected", "game_mode_selected"}

\* C35 as stated: select_difficulty and select_game_mode return at the
\* first input that is '1', '2' or '3' (mapping to EASY/MEDIUM/HARD and
\* CLASSIC/TIMED/STREAK); every other input is rejected and re-prompted, so
\* the number of prompts is the number of invalid entries plus one and no
\* value is returned for an invalid entry.
C35_ReturnsAtFirstDigit ==
    /\ AtMenu
       => /\ term.result = None
          /\ term.prompts = Len(request.typed)
          /\ \A i \in DOMAIN request.typed :
                \A k \in 1..3 : request.typed[i] # Digits[k]
    /\ MenuReturned
       => LET n == Len(request.typed)
          IN  /\ n >= 1
              /\ term.prompts = n
              /\ \A i \in 1..(n - 1) :
                    \A k \in 1..3 : request.typed[i] # Digits[k]
              /\ \E k \in 1..3 :
                    /\ request.typed[n] = Digits[k]
                    /\ term.result = Some(ItemOf(term.pc, k))

\* C35, corrected: the input is stripped of surrounding whitespace before
\* it is compared, so the functions return at the first input that is '1',
\* '2' or '3' once stripped (' 2' selects the second item), with the
\* mapping of the claim; every other input is rejected and re-prompted, the
\* number of prompts is the number of rejected entries plus one, and no
\* value is returned for a rejected entry.
C35_ReturnsAtFirstStrippedDigit ==
    /\ AtMenu
       => /\ term.result = None
          /\ term.prompts = Len(request.typed)
          /\ \A i \in DOMAIN request.typed :
                \A k \in 1..3 : Strip(request.typed[i]) # Digits[k]
    /\ MenuReturned
       => LET n == Len(request.typed)
          IN  /\ n >= 1
              /\ term.prompts = n
              /\ \A i \in 1..(n - 1) :
                    \A k \in 1..3 : Strip(request.typed[i]) # Digits[k]
              /\ \E k \in 1..3 :
                    /\ Strip(request.typed[n]) = Digits[k]
                    /\ term.result = Some(ItemOf(term.pc, k))
    /\ term.pc = "constructed"
       => /\ game.difficulty = response.difficulty
          /\ game.game_mode = response.game_mode

C35_Witness ==
    /\ term.pc = "difficulty_selected"
    /\ request.typed = <<(<<"4">>), (<<"i","n","v","a","l","i","d">>),
                         (<<"1">>)>>
    /\ term.prompts = 3
    /\ term.result = Some("easy")

============================================================================
